---- MODULE Spec2Model ----
(***************************************************************************)
(* Model of generatedata.py (ML_MalDetectPE): the entropy calculator, the  *)
(* resource-tree walk, the version-info reader, the feature extraction     *)
(* extract_infos and the batch loops of the __main__ block.                *)
(*                                                                         *)
(* Python floats are binary floating-point numbers rounded to nearest,     *)
(* ties to even.  They are modelled as pairs <<m, e>> (value m * 2^e) with *)
(* a signed mantissa of Prec bits; Prec stands for the 53 bits of a double.*)
(***************************************************************************)
EXTENDS Integers, Sequences, FiniteSets, TLC

VARIABLES data, run,                       \* get_entropy: argument, locals at return
          pe, pc, res, resources, exc,     \* extract_infos: parsed file, position, locals
          legitimate, malicious, prior,    \* batch: directory listings, old output file
          ff, out, bpc, idx                \* batch: output file, stdout, position, loop index

vars == <<data, run, pe, pc, res, resources, exc,
          legitimate, malicious, prior, ff, out, bpc, idx>>

(***************************************************************************)
(* Bounds of the model.                                                    *)
(***************************************************************************)
Prec == 9            \* mantissa bits of the modelled float (53 in CPython)
MaxLen == 4          \* longest small byte buffer handed to get_entropy
MaxExtra == 2        \* bytes appended to the 0..255 ramp in the large buffers
MaxSections == 3     \* sections of a file
MaxDescs == 2        \* import descriptors of a file
MaxTypes == 2        \* entries of the resource root
MaxFileInfo == 2     \* entries of pe.FileInfo
MaxFiles == 2        \* files in each input directory

LogBits == Prec + 4  \* fraction bits carried while computing a logarithm

(***************************************************************************)
(* Floating-point arithmetic.                                              *)
(***************************************************************************)
RECURSIVE Pow2(_)
Pow2(n) == IF n <= 0 THEN 1 ELSE 2 * Pow2(n - 1)

RECURSIVE BitLen(_)
BitLen(n) == IF n <= 0 THEN 0 ELSE 1 + BitLen(n \div 2)

Abs(n) == IF n < 0 THEN -n ELSE n

Sign(n) == IF n < 0 THEN -1 ELSE 1

FZero == <<0, 0>>

\* num/den rounded to the nearest integer, ties to the even one
RoundHalfEven(num, den) ==
  LET q == num \div den
      r == num % den
  IN  IF 2 * r < den THEN q
      ELSE IF 2 * r > den THEN q + 1
      ELSE IF q % 2 = 0 THEN q ELSE q + 1

\* least j >= 0 with num * 2^j >= den
RECURSIVE ShiftUp(_, _)
ShiftUp(num, den) == IF num >= den THEN 0 ELSE 1 + ShiftUp(2 * num, den)

\* the float nearest to (num/den) * 2^ex, for num, den > 0
RoundPos(num, den, ex) ==
  LET q == num \div den
      k == IF q >= 1 THEN BitLen(q) - Prec
           ELSE 1 - ShiftUp(num, den) - Prec
      m == IF k >= 0 THEN RoundHalfEven(num, den * Pow2(k))
           ELSE RoundHalfEven(num * Pow2(-k), den)
  IN  IF m = Pow2(Prec) THEN <<Pow2(Prec - 1), ex + k + 1>> ELSE <<m, ex + k>>

FSigned(s, f) == <<s * f[1], f[2]>>

\* float(n) for a Python int n
FromInt(n) == IF n = 0 THEN FZero ELSE FSigned(Sign(n), RoundPos(Abs(n), 1, 0))

FNeg(a) == <<-a[1], a[2]>>

FMul(a, b) ==
  IF a[1] = 0 \/ b[1] = 0 THEN FZero
  ELSE FSigned(Sign(a[1]) * Sign(b[1]), RoundPos(Abs(a[1]) * Abs(b[1]), 1, a[2] + b[2]))

FDiv(a, b) ==
  IF a[1] = 0 THEN FZero
  ELSE FSigned(Sign(a[1]) * Sign(b[1]), RoundPos(Abs(a[1]), Abs(b[1]), a[2] - b[2]))

FAdd(a, b) ==
  IF a[1] = 0 THEN b
  ELSE IF b[1] = 0 THEN a
  ELSE LET lo == IF a[2] < b[2] THEN a[2] ELSE b[2]
           da == a[2] - lo
           db == b[2] - lo
       IN  IF da > Prec + 2 THEN a
           ELSE IF db > Prec + 2 THEN b
           ELSE LET s == a[1] * Pow2(da) + b[1] * Pow2(db)
                IN  IF s = 0 THEN FZero ELSE FSigned(Sign(s), RoundPos(Abs(s), 1, lo))

FSub(a, b) == FAdd(a, FNeg(b))

\* a < b, exactly
FLt(a, b) ==
  IF a[1] <= 0 /\ b[1] > 0 THEN a # b
  ELSE IF a[1] < 0 /\ b[1] = 0 THEN TRUE
  ELSE IF a[1] >= 0 /\ b[1] <= 0 THEN FALSE
  ELSE IF a[1] > 0
       THEN a[2] < b[2] \/ (a[2] = b[2] /\ a[1] < b[1])
       ELSE a[2] > b[2] \/ (a[2] = b[2] /\ a[1] < b[1])

FLe(a, b) == a = b \/ FLt(a, b)

\* fraction bits of log2(y / 2^LogBits) for 2^LogBits <= y < 2^(LogBits+1),
\* by repeated squaring
RECURSIVE LogFrac(_, _, _)
LogFrac(y, j, acc) ==
  IF j > LogBits THEN acc
  ELSE LET y2 == (y * y) \div Pow2(LogBits)
       IN  IF y2 >= Pow2(LogBits + 1)
           THEN LogFrac(y2 \div 2, j + 1, acc + Pow2(LogBits - j))
           ELSE LogFrac(y2, j + 1, acc)

\* math.log(a, 2) for a > 0
FLog2(a) ==
  LET b == Prec - 1
      frac == LogFrac(a[1] * Pow2(LogBits - b), 1, 0)
      L == (a[2] + b) * Pow2(LogBits) + frac
  IN  IF L = 0 THEN FZero ELSE FSigned(Sign(L), RoundPos(Abs(L), 1, -LogBits))

(***************************************************************************)
(* get_entropy                                                             *)
(***************************************************************************)
NBuckets == 256

\* Loops are evaluated Stride iterations at a time; the stride only shapes
\* the evaluation, never the result.
Stride == 4 * 4

\* first loop, lines 19-20: occurences[x] += 1 for the byte at position i
CountStep(d, st) == [i |-> st.i + 1, occ |-> [st.occ EXCEPT ![d[st.i]] = @ + 1]]

RECURSIVE CountChunk(_, _, _)
CountChunk(d, st, k) ==
  IF k = 0 \/ st.i > Len(d) THEN st ELSE CountChunk(d, CountStep(d, st), k - 1)

RECURSIVE CountBytes(_, _)
CountBytes(d, st) ==
  IF st.i > Len(d) THEN st.occ ELSE CountBytes(d, CountChunk(d, st, Stride))

\* second loop, lines 22-25: bucket b contributes a term only when its count
\* is nonzero
SumStep(occ, n, st) ==
  IF occ[st.b] # 0
  THEN LET p_x  == FDiv(FromInt(occ[st.b]), FromInt(n))
           term == FMul(p_x, FLog2(p_x))
       IN  [b |-> st.b + 1, entropy |-> FSub(st.entropy, term),
            terms |-> Append(st.terms, term)]
  ELSE [st EXCEPT !.b = @ + 1]

RECURSIVE SumChunk(_, _, _, _)
SumChunk(occ, n, st, k) ==
  IF k = 0 \/ st.b >= NBuckets THEN st ELSE SumChunk(occ, n, SumStep(occ, n, st), k - 1)

RECURSIVE SumBuckets(_, _, _)
SumBuckets(occ, n, st) ==
  IF st.b >= NBuckets THEN st ELSE SumBuckets(occ, n, SumChunk(occ, n, st, Stride))

\* the locals of get_entropy when it returns; occurences and terms stay
\* empty on the early return
GetEntropyRun(d) ==
  IF Len(d) = 0
  THEN [ret |-> FZero, occurences |-> <<>>, terms |-> <<>>]
  ELSE LET occ == CountBytes(d, [i |-> 1, occ |-> [b \in 0 .. NBuckets - 1 |-> 0]])
           s   == SumBuckets(occ, Len(d), [b |-> 0, entropy |-> FZero, terms |-> <<>>])
       IN  [ret |-> s.entropy, occurences |-> occ, terms |-> s.terms]

get_entropy(d) == GetEntropyRun(d).ret

(***************************************************************************)
(* Values of the feature vector: Python ints, floats and strings.          *)
(***************************************************************************)
I(n) == <<"int", n, 0>>

F(f) == <<"float", f[1], f[2]>>

S(s) == <<"str", s, 0>>

RECURSIVE SumI(_)
SumI(C) == IF Len(C) = 0 THEN 0 ELSE C[1] + SumI(Tail(C))

\* sum(C) of floats: starts from 0 and adds the elements left to right
RECURSIVE PySumF(_, _, _)
PySumF(C, i, acc) == IF i > Len(C) THEN acc ELSE PySumF(C, i + 1, FAdd(acc, C[i]))

MinI(C) == CHOOSE x \in {C[i] : i \in 1 .. Len(C)} : \A j \in 1 .. Len(C) : x <= C[j]

MaxI(C) == CHOOSE x \in {C[i] : i \in 1 .. Len(C)} : \A j \in 1 .. Len(C) : C[j] <= x

MinF(C) == CHOOSE x \in {C[i] : i \in 1 .. Len(C)} : \A j \in 1 .. Len(C) : FLe(x, C[j])

MaxF(C) == CHOOSE x \in {C[i] : i \in 1 .. Len(C)} : \A j \in 1 .. Len(C) : FLe(C[j], x)

\* sum(C) / float(len(C)) for a list of floats
MeanF(C) == FDiv(PySumF(C, 1, FZero), FromInt(Len(C)))

\* sum(C) / float(len(C)) for a list of ints
MeanI(C) == FDiv(FromInt(SumI(C)), FromInt(Len(C)))

Zeros(n) == [i \in 1 .. n |-> I(0)]

(***************************************************************************)
(* get_resources                                                           *)
(***************************************************************************)
\* innermost loop, lines 39-46: a language entry without data, or whose data
\* range cannot be read, raises
RECURSIVE WalkLangs(_, _, _)
WalkLangs(langs, i, st) ==
  IF st.failed \/ i > Len(langs) THEN st
  ELSE IF langs[i].kind # "ok" THEN [st EXCEPT !.failed = TRUE]
  ELSE WalkLangs(langs, i + 1,
         [st EXCEPT !.resources =
            Append(@, <<get_entropy(langs[i].data), langs[i].Size>>)])

\* lines 37-38: an id entry without a directory is passed over; one whose
\* directory is None raises
RECURSIVE WalkIds(_, _, _)
WalkIds(ids, i, st) ==
  IF st.failed \/ i > Len(ids) THEN st
  ELSE IF ids[i].kind = "nodir" THEN WalkIds(ids, i + 1, st)
  ELSE IF ids[i].kind = "none" THEN [st EXCEPT !.failed = TRUE]
  ELSE WalkIds(ids, i + 1, WalkLangs(ids[i].entries, 1, st))

\* lines 35-36
RECURSIVE WalkTypes(_, _, _)
WalkTypes(types, i, st) ==
  IF st.failed \/ i > Len(types) THEN st
  ELSE IF types[i].kind = "nodir" THEN WalkTypes(types, i + 1, st)
  ELSE IF types[i].kind = "none" THEN [st EXCEPT !.failed = TRUE]
  ELSE WalkTypes(types, i + 1, WalkIds(types[i].entries, 1, st))

\* a variant whose handler returns an empty list instead of what was collected
get_resources_dropping(p) ==
  IF ~p.resource.present THEN <<>>
  ELSE LET st == WalkTypes(p.resource.entries, 1, [resources |-> <<>>, failed |-> FALSE])
       IN  IF st.failed THEN <<>> ELSE st.resources

\* whatever was collected is returned, with or without a failure
get_resources(p) ==
  IF ~p.resource.present THEN <<>>
  ELSE WalkTypes(p.resource.entries, 1, [resources |-> <<>>, failed |-> FALSE]).resources

(***************************************************************************)
(* get_version_info                                                        *)
(***************************************************************************)
FixedKeys == {"flags", "os", "type", "file_version", "product_version",
              "signature", "struct_version"}

RECURSIVE TableKeys(_)
TableKeys(tables) ==
  IF Len(tables) = 0 THEN {} ELSE tables[1] \cup TableKeys(Tail(tables))

\* lines 55-62: an entry without a Key raises AttributeError; indexing the
\* items() view of a Var entry raises TypeError
RECURSIVE WalkFileInfo(_, _, _)
WalkFileInfo(infos, i, st) ==
  IF st.exc # "none" \/ i > Len(infos) THEN st
  ELSE IF infos[i].Key = "missing" THEN [st EXCEPT !.exc = "AttributeError"]
  ELSE IF infos[i].Key = "StringFileInfo"
       THEN WalkFileInfo(infos, i + 1, [st EXCEPT !.keys = @ \cup TableKeys(infos[i].StringTable)])
  ELSE IF infos[i].Key = "VarFileInfo" /\ infos[i].Var > 0
       THEN [st EXCEPT !.exc = "TypeError"]
  ELSE WalkFileInfo(infos, i + 1, st)

\* the keys of the returned dict, or the exception raised
get_version_info(p) ==
  IF ~p.FileInfo.present THEN [exc |-> "AttributeError", keys |-> {}]
  ELSE LET st == WalkFileInfo(p.FileInfo.entries, 1, [exc |-> "none", keys |-> {}])
       IN  IF st.exc # "none" THEN st
           ELSE IF p.VS_FIXEDFILEINFO = "absent" THEN st
           ELSE IF p.VS_FIXEDFILEINFO = "list" THEN [st EXCEPT !.exc = "AttributeError"]
           ELSE [st EXCEPT !.keys = @ \cup FixedKeys]

(***************************************************************************)
(* extract_infos, block by block                                           *)
(***************************************************************************)
FileHeaderFields == <<"Machine", "SizeOfOptionalHeader", "Characteristics">>

OptionalFields1 ==
  <<"MajorLinkerVersion", "MinorLinkerVersion", "SizeOfCode", "SizeOfInitializedData",
    "SizeOfUninitializedData", "AddressOfEntryPoint", "BaseOfCode">>

OptionalFields2 ==
  <<"ImageBase", "SectionAlignment", "FileAlignment", "MajorOperatingSystemVersion",
    "MinorOperatingSystemVersion", "MajorImageVersion", "MinorImageVersion",
    "MajorSubsystemVersion", "MinorSubsystemVersion", "SizeOfImage", "SizeOfHeaders",
    "CheckSum", "Subsystem", "DllCharacteristics", "SizeOfStackReserve",
    "SizeOfStackCommit", "SizeOfHeapReserve", "SizeOfHeapCommit", "LoaderFlags",
    "NumberOfRvaAndSizes">>

FieldsOf(h, names) == [i \in 1 .. Len(names) |-> I(h[names[i]])]

\* lines 90-93
BaseOfDataBlock(p) ==
  IF "BaseOfData" \in DOMAIN p.OPTIONAL_HEADER
  THEN <<I(p.OPTIONAL_HEADER["BaseOfData"])>>
  ELSE <<I(0)>>

\* lines 80-113
HeaderBlock(p) ==
  FieldsOf(p.FILE_HEADER, FileHeaderFields) \o FieldsOf(p.OPTIONAL_HEADER, OptionalFields1)
    \o BaseOfDataBlock(p) \o FieldsOf(p.OPTIONAL_HEADER, OptionalFields2)

\* x.get_entropy() of a section: the entropy of its raw data
SectionEntropy(x) == get_entropy(x.data)

\* lines 116-123, 126-134, 138-146: mean, min, max or three zeros
StatsF(C) ==
  IF Len(C) > 0 THEN <<F(MeanF(C)), F(MinF(C)), F(MaxF(C))>> ELSE Zeros(3)

\* a variant without the empty case for min and max
StatsI_unguarded(C) ==
  IF Len(C) > 0 THEN <<F(MeanI(C)), I(MinI(C)), I(MaxI(C))>>
  ELSE <<I(0), S("None"), S("None")>>

StatsI(C) ==
  IF Len(C) > 0 THEN <<F(MeanI(C)), I(MinI(C)), I(MaxI(C))>> ELSE Zeros(3)

\* lines 114-146
SectionsBlock(p) ==
  LET n == Len(p.sections)
  IN  <<I(n)>>
        \o StatsF([i \in 1 .. n |-> SectionEntropy(p.sections[i])])
        \o StatsI([i \in 1 .. n |-> p.sections[i].SizeOfRawData])
        \o StatsI([i \in 1 .. n |-> p.sections[i].Misc_VirtualSize])

RECURSIVE AllImports(_)
AllImports(descs) ==
  IF Len(descs) = 0 THEN <<>> ELSE descs[1].imports \o AllImports(Tail(descs))

\* a variant whose third count keeps the symbols that have a name
ImportsBlock_named(p) ==
  IF ~p.imports.present THEN Zeros(3)
  ELSE LET descs   == p.imports.descs
           imports == AllImports(descs)
           first   == <<I(Len(descs))>>
       IN  IF \E i \in 1 .. Len(descs) : ~descs[i].hasImports
           THEN first \o Zeros(3)
           ELSE IF \E j \in 1 .. Len(imports) : imports[j] = "missing"
                THEN first \o <<I(Len(imports))>> \o Zeros(3)
                ELSE first \o <<I(Len(imports)),
                                I(Cardinality({j \in 1 .. Len(imports) : imports[j] = "name"}))>>

\* lines 147-156: each statement of the try block appends before the next
\* one runs; the handler appends three zeros wherever the error was raised
ImportsBlock(p) ==
  IF ~p.imports.present THEN Zeros(3)
  ELSE LET descs   == p.imports.descs
           imports == AllImports(descs)
           first   == <<I(Len(descs))>>
       IN  IF \E i \in 1 .. Len(descs) : ~descs[i].hasImports
           THEN first \o Zeros(3)
           ELSE IF \E j \in 1 .. Len(imports) : imports[j] = "missing"
                THEN first \o <<I(Len(imports))>> \o Zeros(3)
                ELSE first \o <<I(Len(imports)),
                                I(Cardinality({j \in 1 .. Len(imports) : imports[j] = "None"}))>>

\* lines 157-162
ExportsBlock(p) ==
  IF p.exports.present THEN <<I(p.exports.symbols)>> ELSE <<I(0)>>

\* lines 165-181
ResourcesBlock(r) ==
  <<I(Len(r))>> \o
    (IF Len(r) > 0
     THEN <<F(MeanF([i \in 1 .. Len(r) |-> r[i][1]])),
            F(MinF([i \in 1 .. Len(r) |-> r[i][1]])),
            F(MaxF([i \in 1 .. Len(r) |-> r[i][1]])),
            F(MeanI([i \in 1 .. Len(r) |-> r[i][2]])),
            I(MinI([i \in 1 .. Len(r) |-> r[i][2]])),
            I(MaxI([i \in 1 .. Len(r) |-> r[i][2]]))>>
     ELSE Zeros(6))

\* lines 183-187
LoadConfigBlock(p) ==
  IF p.loadconfig.present THEN <<I(p.loadconfig.Size)>> ELSE <<I(0)>>

\* lines 188-193: only AttributeError is handled
VersionBlock(p) ==
  LET v == get_version_info(p)
  IN  IF v.exc = "none" THEN [exc |-> "none", block |-> <<I(Cardinality(v.keys))>>]
      ELSE IF v.exc = "AttributeError" THEN [exc |-> "none", block |-> <<I(0)>>]
      ELSE [exc |-> v.exc, block |-> <<>>]

(***************************************************************************)
(* The batch tool's constants, lines 197-221.                              *)
(***************************************************************************)
columns ==
  <<"Name", "md5", "impash", "Machine", "SizeOfOptionalHeader", "Characteristics",
    "MajorLinkerVersion", "MinorLinkerVersion", "SizeOfCode",
    "SizeOfInitializedData", "SizeOfUninitializedData",
    "AddressOfEntryPoint", "BaseOfCode", "BaseOfData", "ImageBase",
    "SectionAlignment", "FileAlignment", "MajorOperatingSystemVersion",
    "MinorOperatingSystemVersion", "MajorImageVersion",
    "MinorImageVersion", "MajorSubsystemVersion", "MinorSubsystemVersion",
    "SizeOfImage", "SizeOfHeaders", "CheckSum", "Subsystem",
    "DllCharacteristics", "SizeOfStackReserve", "SizeOfStackCommit",
    "SizeOfHeapReserve", "SizeOfHeapCommit", "LoaderFlags",
    "NumberOfRvaAndSizes", "SectionsNb", "SectionsMeanEntropy",
    "SectionsMinEntropy", "SectionsMaxEntropy", "SectionsMeanRawsize",
    "SectionsMinRawsize", "SectionMaxRawsize", "SectionsMeanVirtualsize",
    "SectionsMinVirtualsize", "SectionMaxVirtualsize", "ImportsNbDLL",
    "ImportsNb", "ImportsNbOrdinal", "ExportNb", "ResourcesNb",
    "ResourcesMeanEntropy", "ResourcesMinEntropy", "ResourcesMaxEntropy",
    "ResourcesMeanSize", "ResourcesMinSize", "ResourcesMaxSize",
    "LoadConfigurationSize", "VersionInformationSize", "legitimate">>

\* csv_delimiter.join(columns): a line is kept as the list of its fields
HeaderLine == [i \in 1 .. Len(columns) |-> S(columns[i])]

(***************************************************************************)
(* Input files.                                                            *)
(***************************************************************************)
SeqsUpTo(A, n) == UNION {[1 .. k -> A] : k \in 0 .. n}

Range(f) == {f[x] : x \in DOMAIN f}

IndexOf(seq, x) == CHOOSE i \in 1 .. Len(seq) : seq[i] = x

OptionalAll == OptionalFields1 \o <<"BaseOfData">> \o OptionalFields2

\* a 32-bit optional header: every field holds a value of its own
OptionalHeader32 == [f \in Range(OptionalAll) |-> 1000 + IndexOf(OptionalAll, f)]

\* the 64-bit form has no BaseOfData
OptionalHeader64 == [f \in Range(OptionalAll) \ {"BaseOfData"} |-> OptionalHeader32[f]]

FileHeader == [Machine |-> 332, SizeOfOptionalHeader |-> 224, Characteristics |-> 258]

ByteValues == {0, 1, 255}

SmallBuffers == SeqsUpTo(ByteValues, MaxLen)

\* every byte value once, then a few more bytes
Ramp(extra) ==
  [i \in 1 .. NBuckets + Len(extra) |-> IF i <= NBuckets THEN i - 1 ELSE extra[i - NBuckets]]

LargeBuffers == {Ramp(x) : x \in SeqsUpTo({0, 255}, MaxExtra)}

Section(d, raw, virt) == [data |-> d, SizeOfRawData |-> raw, Misc_VirtualSize |-> virt]

SectionKinds == {Section(<<>>, 0, 4), Section(<<0, 0, 1>>, 3, 3), Section(<<0, 1>>, 2, 1)}

Symbols == {"name", "None", "missing"}

DescKinds ==
  {[hasImports |-> FALSE, imports |-> <<>>]}
    \cup {[hasImports |-> TRUE, imports |-> y] : y \in SeqsUpTo(Symbols, 2)}

Leaf(k, d, n) == [kind |-> k, data |-> d, Size |-> n]

LeafA == Leaf("ok", <<0, 0, 1>>, 3)

\* a leaf whose data range is cut short by the end of the file
LeafB == Leaf("ok", <<0, 1>>, 5)

\* an entry with no data attribute, and one whose data range cannot be read
BadLeaves == {Leaf("nodata", <<>>, 0), Leaf("badrva", <<>>, 7)}

Node(k, e) == [kind |-> k, entries |-> e]

IdKinds ==
  {Node("nodir", <<>>), Node("none", <<>>), Node("dir", <<>>), Node("dir", <<LeafA>>),
   Node("dir", <<LeafA, LeafB>>)}
    \cup {Node("dir", <<x>>) : x \in BadLeaves}
    \cup {Node("dir", <<LeafB, x, LeafA>>) : x \in BadLeaves}

TypeKinds ==
  {Node("nodir", <<>>), Node("none", <<>>), Node("dir", <<>>)}
    \cup {Node("dir", <<x>>) : x \in IdKinds}
    \cup {Node("dir", <<Node("dir", <<LeafB>>), x>>) :
            x \in {Node("none", <<>>), Node("dir", <<LeafA>>)}}
    \cup {Node("dir", <<x, Node("dir", <<LeafA>>)>>) :
            x \in {Node("nodir", <<>>), Node("none", <<>>), Node("dir", <<Leaf("nodata", <<>>, 0)>>)}}

InfoString(t) == [Key |-> "StringFileInfo", StringTable |-> t, Var |-> 0]

InfoVar(n) == [Key |-> "VarFileInfo", StringTable |-> <<>>, Var |-> n]

FileInfoKinds ==
  {[Key |-> "missing", StringTable |-> <<>>, Var |-> 0],
   InfoString(<<>>), InfoString(<<{"CompanyName"}>>),
   InfoString(<<{"CompanyName", "flags"}, {"CompanyName", "FileVersion"}>>),
   InfoVar(0), InfoVar(1)}

Absent == [present |-> FALSE]

Imports(d) == [present |-> TRUE, descs |-> d]

Exports(n) == [present |-> TRUE, symbols |-> n]

Resource(t) == [present |-> TRUE, entries |-> t]

LoadConfig(n) == [present |-> TRUE, Size |-> n]

FileInfo(e) == [present |-> TRUE, entries |-> e]

\* a well-formed file with no sections and no directories
BarePE ==
  [kind |-> "ok", name |-> "a.exe",
   FILE_HEADER |-> FileHeader, OPTIONAL_HEADER |-> OptionalHeader32,
   sections |-> <<>>, imports |-> Absent, exports |-> Absent, resource |-> Absent,
   loadconfig |-> Absent, FileInfo |-> Absent, VS_FIXEDFILEINFO |-> "absent"]

TwoNamed == [hasImports |-> TRUE, imports |-> <<"name", "None">>]

OneLeafTree == <<Node("dir", <<Node("dir", <<LeafA>>)>>)>>

\* every directory varied against every other, over few values each
CrossPEs ==
  {[BarePE EXCEPT !.OPTIONAL_HEADER = h, !.sections = s, !.imports = i, !.exports = x,
                  !.resource = r, !.loadconfig = l, !.FileInfo = v[1],
                  !.VS_FIXEDFILEINFO = v[2]] :
     h \in {OptionalHeader32, OptionalHeader64},
     s \in {<<>>, <<Section(<<0, 1>>, 2, 1)>>},
     i \in {Absent, Imports(<<TwoNamed>>), Imports(<<[hasImports |-> FALSE, imports |-> <<>>]>>)},
     x \in {Absent, Exports(2)},
     r \in {Absent, Resource(OneLeafTree)},
     l \in {Absent, LoadConfig(64)},
     v \in {<<Absent, "absent">>, <<FileInfo(<<InfoString(<<{"CompanyName"}>>)>>), "struct">>,
            <<FileInfo(<<InfoVar(1)>>), "absent">>}}

\* one directory varied widely, the others bare
SectionPEs == {[BarePE EXCEPT !.sections = s] : s \in SeqsUpTo(SectionKinds, MaxSections)}

ImportPEs ==
  {[BarePE EXCEPT !.imports = Imports(d), !.exports = Exports(2)] : d \in SeqsUpTo(DescKinds, MaxDescs)}

ResourcePEs ==
  {[BarePE EXCEPT !.resource = Resource(t)] : t \in SeqsUpTo(TypeKinds, MaxTypes)}

VersionPEs ==
  {[BarePE EXCEPT !.FileInfo = FileInfo(e), !.VS_FIXEDFILEINFO = f] :
     e \in SeqsUpTo(FileInfoKinds, MaxFileInfo), f \in {"absent", "struct", "list"}}

\* a file that is no PE, and a directory entry that cannot be opened for reading
BadFiles == {[BarePE EXCEPT !.kind = "malformed"], [BarePE EXCEPT !.kind = "unreadable"]}

InputPEs == CrossPEs \cup SectionPEs \cup ImportPEs \cup ResourcePEs \cup VersionPEs \cup BadFiles

\* the kinds of file a batch directory holds
BatchFiles ==
  [good      |-> [BarePE EXCEPT !.sections = <<Section(<<0, 1>>, 2, 1)>>,
                                !.imports = Imports(<<TwoNamed>>)],
   malformed |-> [BarePE EXCEPT !.kind = "malformed"],
   unreadable |-> [BarePE EXCEPT !.kind = "unreadable"],
   varinfo   |-> [BarePE EXCEPT !.FileInfo = FileInfo(<<InfoVar(1)>>)]]

StaleLine == <<S("stale")>>

PriorContents == {<<>>, <<HeaderLine>>, <<HeaderLine, StaleLine>>}

(***************************************************************************)
(* State machine.                                                          *)
(***************************************************************************)
NoRun == [called |-> FALSE, ret |-> FZero, occurences |-> <<>>, terms |-> <<>>]

Md5(name) == <<"md5", name, 0>>

\* get_entropy(data) is called and returns
CallGetEntropy ==
  /\ ~run.called
  /\ run' = [called |-> TRUE, ret |-> get_entropy(data),
             occurences |-> GetEntropyRun(data).occurences,
             terms |-> GetEntropyRun(data).terms]
  /\ UNCHANGED <<data, pe, pc, res, resources, exc, legitimate, malicious, prior,
                 ff, out, bpc, idx>>

batchVars == <<legitimate, malicious, prior, ff, out, bpc, idx>>

\* lines 75-113: name, digest, parse, header fields
ParseAndHeaders ==
  /\ pc = "start"
  /\ IF pe.kind = "unreadable"
     THEN /\ res' = <<S(pe.name)>>
          /\ pc' = "raised"
          /\ exc' = "OSError"
     ELSE IF pe.kind = "malformed"
     THEN /\ res' = <<S(pe.name), Md5(pe.name)>>
          /\ pc' = "raised"
          /\ exc' = "PEFormatError"
     ELSE /\ res' = <<S(pe.name), Md5(pe.name)>> \o HeaderBlock(pe)
          /\ pc' = "sections"
          /\ exc' = "none"
  /\ UNCHANGED <<data, run, pe, resources>>
  /\ UNCHANGED batchVars

\* lines 114-146
Sections ==
  /\ pc = "sections"
  /\ res' = res \o SectionsBlock(pe)
  /\ pc' = "imports"
  /\ UNCHANGED <<data, run, pe, resources, exc>>
  /\ UNCHANGED batchVars

\* lines 147-156
ImportsStep ==
  /\ pc = "imports"
  /\ res' = res \o ImportsBlock(pe)
  /\ pc' = "exports"
  /\ UNCHANGED <<data, run, pe, resources, exc>>
  /\ UNCHANGED batchVars

\* lines 157-162
ExportsStep ==
  /\ pc = "exports"
  /\ res' = res \o ExportsBlock(pe)
  /\ pc' = "resources"
  /\ UNCHANGED <<data, run, pe, resources, exc>>
  /\ UNCHANGED batchVars

\* lines 163-181
ResourcesStep ==
  /\ pc = "resources"
  /\ LET r == get_resources(pe)
     IN  /\ resources' = r
         /\ res' = res \o ResourcesBlock(r)
  /\ pc' = "loadconfig"
  /\ UNCHANGED <<data, run, pe, exc>>
  /\ UNCHANGED batchVars

\* lines 183-187
LoadConfigStep ==
  /\ pc = "loadconfig"
  /\ res' = res \o LoadConfigBlock(pe)
  /\ pc' = "version"
  /\ UNCHANGED <<data, run, pe, resources, exc>>
  /\ UNCHANGED batchVars

\* lines 188-194: the last block, then the return
VersionAndReturn ==
  /\ pc = "version"
  /\ res' = res \o VersionBlock(pe).block
  /\ exc' = VersionBlock(pe).exc
  /\ pc' = IF VersionBlock(pe).exc = "none" THEN "returned" ELSE "raised"
  /\ UNCHANGED <<data, run, pe, resources>>
  /\ UNCHANGED batchVars

ExtractStep ==
  \/ ParseAndHeaders
  \/ Sections
  \/ ImportsStep
  \/ ExportsStep
  \/ ResourcesStep
  \/ LoadConfigStep
  \/ VersionAndReturn

Listing == IF bpc = "legitimate" THEN legitimate ELSE malicious

FileName(dir, i) == (IF dir = "legitimate" THEN "l" ELSE "m") \o ToString(i) \o ".exe"

\* lines 221-224: the output file is opened for appending and the header written
OpenAndWriteHeader ==
  /\ bpc = "begin"
  /\ ff' = Append(prior, HeaderLine)
  /\ bpc' = "legitimate"
  /\ idx' = 1
  /\ UNCHANGED <<data, run, pe, pc, res, resources, exc, legitimate, malicious, prior, out>>

\* lines 227-233 and 248-254: the next name is printed and extract_infos called
StartFile ==
  /\ bpc \in {"legitimate", "malicious"}
  /\ pc = "idle"
  /\ idx <= Len(Listing)
  /\ out' = Append(out, <<"file", FileName(bpc, idx)>>)
  /\ pe' = [BatchFiles[Listing[idx]] EXCEPT !.name = FileName(bpc, idx)]
  /\ pc' = "start"
  /\ res' = <<>>
  /\ resources' = <<>>
  /\ exc' = "none"
  /\ UNCHANGED <<data, run, legitimate, malicious, prior, ff, bpc, idx>>

\* lines 236-239 and 257-260: the label is appended and the row written
WriteRow ==
  /\ bpc \in {"legitimate", "malicious"}
  /\ pc = "returned"
  /\ ff' = Append(ff, Append(res, I(IF bpc = "legitimate" THEN 1 ELSE 0)))
  /\ pc' = "idle"
  /\ idx' = idx + 1
  /\ UNCHANGED <<data, run, pe, res, resources, exc, legitimate, malicious, prior, out, bpc>>

\* lines 242-243 and 263-264
SkipBadFormat ==
  /\ bpc \in {"legitimate", "malicious"}
  /\ pc = "raised"
  /\ exc = "PEFormatError"
  /\ out' = Append(out, <<"bad", FileName(bpc, idx)>>)
  /\ pc' = "idle"
  /\ idx' = idx + 1
  /\ UNCHANGED <<data, run, pe, res, resources, exc, legitimate, malicious, prior, ff, bpc>>

\* any other exception leaves the loop and ends the script
Crash ==
  /\ bpc \in {"legitimate", "malicious"}
  /\ pc = "raised"
  /\ exc # "PEFormatError"
  /\ bpc' = "crashed"
  /\ UNCHANGED <<data, run, pe, pc, res, resources, exc, legitimate, malicious, prior,
                 ff, out, idx>>

\* lines 245-248: the first loop is over, the file is reopened for appending
NextDirectory ==
  /\ bpc = "legitimate"
  /\ pc = "idle"
  /\ idx > Len(legitimate)
  /\ bpc' = "malicious"
  /\ idx' = 1
  /\ UNCHANGED <<data, run, pe, pc, res, resources, exc, legitimate, malicious, prior, ff, out>>

\* the second loop is over
Finish ==
  /\ bpc = "malicious"
  /\ pc = "idle"
  /\ idx > Len(malicious)
  /\ bpc' = "done"
  /\ UNCHANGED <<data, run, pe, pc, res, resources, exc, legitimate, malicious, prior,
                 ff, out, idx>>

BatchIdle ==
  /\ legitimate = <<>> /\ malicious = <<>> /\ prior = <<>>
  /\ ff = <<>> /\ out = <<>> /\ bpc = "direct" /\ idx = 0

ExtractIdle ==
  /\ pe = BarePE /\ pc = "idle" /\ res = <<>> /\ resources = <<>> /\ exc = "none"

EntropyIdle == data = <<>> /\ run = NoRun

\* get_entropy on its own
InitEntropy ==
  /\ data \in SmallBuffers \cup LargeBuffers
  /\ run = NoRun
  /\ ExtractIdle
  /\ BatchIdle

NextEntropy == CallGetEntropy

SpecEntropy == InitEntropy /\ [][NextEntropy]_vars

\* one call of extract_infos
Init ==
  /\ EntropyIdle
  /\ pe \in InputPEs
  /\ pc = "start"
  /\ res = <<>>
  /\ resources = <<>>
  /\ exc = "none"
  /\ BatchIdle

Next == ExtractStep

Spec == Init /\ [][Next]_vars

\* one run of the script
InitBatch ==
  /\ EntropyIdle
  /\ ExtractIdle
  /\ legitimate \in SeqsUpTo(DOMAIN BatchFiles, MaxFiles)
  /\ malicious \in SeqsUpTo(DOMAIN BatchFiles, MaxFiles)
  /\ prior \in PriorContents
  /\ ff = prior
  /\ out = <<>>
  /\ bpc = "begin"
  /\ idx = 0

NextBatch ==
  \/ OpenAndWriteHeader
  \/ StartFile
  \/ ExtractStep
  \/ WriteRow
  \/ SkipBadFormat
  \/ Crash
  \/ NextDirectory
  \/ Finish

SpecBatch == InitBatch /\ [][NextBatch]_vars

(***************************************************************************)
(* Properties.                                                             *)
(***************************************************************************)
\* the field order of the feature vector: the columns without the digest of
\* the imports, which extract_infos no longer computes, and without the label
Schema == SelectSeq(columns, LAMBDA c : c \notin {"impash", "legitimate"})

Pos(name) == IndexOf(Schema, name)

FloatOf(v) == <<v[2], v[3]>>

\* a statistic as a float, whichever way it was appended
AsFloat(v) == IF v[1] = "float" THEN FloatOf(v) ELSE FromInt(v[2])

IsPrefix(a, b) == Len(a) <= Len(b) /\ a = SubSeq(b, 1, Len(a))

Parsed == pe.kind = "ok" /\ pc \notin {"idle", "start"}

\* the positions extract_infos has passed
Past(step) ==
  /\ Parsed
  /\ pc \in CASE step = "sections"  -> {"imports", "exports", "resources", "loadconfig",
                                        "version", "returned", "raised"}
              [] step = "imports"   -> {"exports", "resources", "loadconfig", "version",
                                        "returned", "raised"}
              [] step = "exports"   -> {"resources", "loadconfig", "version", "returned",
                                        "raised"}
              [] step = "resources" -> {"loadconfig", "version", "returned", "raised"}

\* C1: every vector extract_infos returns has the fields of the schema, and
\* each guarded block has added exactly its own number of fields when the
\* next one starts, whatever is present, absent or failing in the file.
C1_FixedSchema ==
  /\ (Parsed /\ pc = "sections")   => Len(res) = Pos("NumberOfRvaAndSizes")
  /\ (Parsed /\ pc = "imports")    => Len(res) = Pos("SectionMaxVirtualsize")
  /\ (Parsed /\ pc = "exports")    => Len(res) = Pos("ImportsNbOrdinal")
  /\ (Parsed /\ pc = "resources")  => Len(res) = Pos("ExportNb")
  /\ (Parsed /\ pc = "loadconfig") => Len(res) = Pos("ResourcesMaxSize")
  /\ (Parsed /\ pc = "version")    => Len(res) = Pos("LoadConfigurationSize")
  /\ pc = "returned"               => Len(res) = Len(Schema)

\* C2: once the file has parsed, no failure of a directory resolver leaves
\* extract_infos: it returns, and a version resource that cannot be read
\* counts as 0 keys.
C2_ResolverFailuresAbsorbed ==
  /\ pe.kind = "ok" => (pc # "raised" /\ exc = "none")
  /\ (pc = "returned" /\ get_version_info(pe).exc # "none") => res[Len(res)] = I(0)

\* the files of the run whose extraction fails, and those it has gone through
Failing(kinds) == {i \in 1 .. Len(kinds) : kinds[i] # "good"}

RunLines == SubSeq(ff, Len(prior) + 2, Len(ff))

Skips == SelectSeq(out, LAMBDA o : o[1] = "bad")

\* C3: a file whose extraction fails, for whatever reason, costs one skip
\* notification and no row, and never ends the run: when the run is over
\* every other file has its row.
C3_FailuresSkipped ==
  /\ bpc # "crashed"
  /\ bpc = "done" =>
       /\ Len(Skips) = Cardinality(Failing(legitimate)) + Cardinality(Failing(malicious))
       /\ Len(RunLines) = (Len(legitimate) - Cardinality(Failing(legitimate)))
                            + (Len(malicious) - Cardinality(Failing(malicious)))
  /\ \A i \in 1 .. Len(RunLines) : Len(RunLines[i]) > 2

\* the entries of the vector just appended by the last block
LastOf(n) == SubSeq(res, Len(res) - n + 1, Len(res))

\* C4: empty collections give zeros: no sections, ten zeros from SectionsNb
\* on; no import directory, three zeros; no export directory, ExportNb 0; no
\* resource leaf, seven zeros from ResourcesNb on; and every statistic is a
\* number.
C4_EmptyAggregates ==
  /\ (Past("sections") /\ pe.sections = <<>>) =>
        SubSeq(res, Pos("SectionsNb"), Pos("SectionMaxVirtualsize")) = Zeros(10)
  /\ (Past("imports") /\ ~pe.imports.present) =>
        SubSeq(res, Pos("ImportsNbDLL"), Pos("ImportsNbOrdinal")) = Zeros(3)
  /\ (Parsed /\ pc = "resources" /\ ~pe.exports.present) => LastOf(1) = Zeros(1)
  /\ (Parsed /\ pc = "loadconfig" /\ resources = <<>>) => LastOf(7) = Zeros(7)
  /\ Parsed => \A i \in Pos("SectionsNb") .. Len(res) : res[i][1] \in {"int", "float"}

C4_Witness ==
  /\ pc = "returned"
  /\ pe.sections = <<>> /\ ~pe.imports.present /\ ~pe.exports.present
  /\ pe.resource.present /\ resources = <<>>

\* min <= mean <= max for a triple as appended, min and max among the values
Ordered(triple, C) ==
  /\ FLe(AsFloat(triple[2]), AsFloat(triple[1]))
  /\ FLe(AsFloat(triple[1]), AsFloat(triple[3]))
  /\ \E i \in 1 .. Len(C) : AsFloat(triple[2]) = C[i]
  /\ \E i \in 1 .. Len(C) : AsFloat(triple[3]) = C[i]

IntsOf(C) == [i \in 1 .. Len(C) |-> FromInt(C[i])]

\* min * |C| <= sum(C) <= max * |C|
OrderedSum(triple, C) ==
  /\ triple[2][2] * Len(C) <= SumI(C)
  /\ SumI(C) <= triple[3][2] * Len(C)

SectionEntropies == [i \in 1 .. Len(pe.sections) |-> SectionEntropy(pe.sections[i])]

RawSizes == [i \in 1 .. Len(pe.sections) |-> pe.sections[i].SizeOfRawData]

VirtualSizes == [i \in 1 .. Len(pe.sections) |-> pe.sections[i].Misc_VirtualSize]

\* the size statistics alone
C5_SizesOrdered ==
  /\ (Past("sections") /\ pe.sections # <<>>) =>
       /\ Ordered(SubSeq(res, Pos("SectionsMeanRawsize"), Pos("SectionMaxRawsize")),
                  IntsOf(RawSizes))
       /\ OrderedSum(SubSeq(res, Pos("SectionsMeanRawsize"), Pos("SectionMaxRawsize")),
                     RawSizes)
       /\ Ordered(SubSeq(res, Pos("SectionsMeanVirtualsize"), Pos("SectionMaxVirtualsize")),
                  IntsOf(VirtualSizes))
       /\ OrderedSum(SubSeq(res, Pos("SectionsMeanVirtualsize"), Pos("SectionMaxVirtualsize")),
                     VirtualSizes)
  /\ (Parsed /\ pc = "loadconfig" /\ resources # <<>>) =>
       /\ Ordered(LastOf(3), IntsOf([i \in 1 .. Len(resources) |-> resources[i][2]]))
       /\ OrderedSum(LastOf(3), [i \in 1 .. Len(resources) |-> resources[i][2]])

\* the entropy statistics alone
C5_EntropiesOrdered ==
  /\ (Past("sections") /\ pe.sections # <<>>) =>
       Ordered(SubSeq(res, Pos("SectionsMeanEntropy"), Pos("SectionsMaxEntropy")),
               SectionEntropies)
  /\ (Parsed /\ pc = "loadconfig" /\ resources # <<>>) =>
       Ordered(SubSeq(LastOf(6), 1, 3), [i \in 1 .. Len(resources) |-> resources[i][1]])

\* C5: for every non-empty collection of section raw sizes, section virtual
\* sizes, resource sizes, section entropies or resource entropies, the three
\* statistics satisfy min <= mean <= max, with min and max taken from the
\* collection.
C5_MeanBetweenMinAndMax == C5_SizesOrdered /\ C5_EntropiesOrdered

\* the walk of the resource tree as a list of events in depth-first order
LangEvents(langs) ==
  [i \in 1 .. Len(langs) |->
     IF langs[i].kind = "ok"
     THEN <<"leaf", <<get_entropy(langs[i].data), langs[i].Size>>>>
     ELSE <<"fail", <<>>>>]

IdEvents(n) ==
  IF n.kind = "nodir" THEN <<>>
  ELSE IF n.kind = "none" THEN <<<<"fail", <<>>>>>>
  ELSE LangEvents(n.entries)

RECURSIVE IdsEvents(_)
IdsEvents(ids) == IF Len(ids) = 0 THEN <<>> ELSE IdEvents(ids[1]) \o IdsEvents(Tail(ids))

TypeEvents(n) ==
  IF n.kind = "nodir" THEN <<>>
  ELSE IF n.kind = "none" THEN <<<<"fail", <<>>>>>>
  ELSE IdsEvents(n.entries)

RECURSIVE TypesEvents(_)
TypesEvents(types) ==
  IF Len(types) = 0 THEN <<>> ELSE TypeEvents(types[1]) \o TypesEvents(Tail(types))

TreeEvents == IF pe.resource.present THEN TypesEvents(pe.resource.entries) ELSE <<>>

LeavesOf(events) ==
  LET leaves == SelectSeq(events, LAMBDA e : e[1] = "leaf")
  IN  [i \in 1 .. Len(leaves) |-> leaves[i][2]]

\* the events before the first failure
BeforeFailure(events) ==
  LET fails == {i \in 1 .. Len(events) : events[i][1] = "fail"}
  IN  IF fails = {} THEN events
      ELSE SubSeq(events, 1, (CHOOSE i \in fails : \A j \in fails : i <= j) - 1)

\* C6: get_resources returns the leaves met before the first failure of the
\* depth-first walk, in order, each a whole [entropy, size] pair: a prefix
\* of the leaves of the tree, all of them when nothing fails; ResourcesNb is
\* its length.
C6_WalkStopsAtFailure ==
  Past("resources") =>
    LET events == TreeEvents
        leaves == LeavesOf(events)
    IN  /\ resources = LeavesOf(BeforeFailure(events))
        /\ IsPrefix(resources, leaves)
        /\ \A i \in 1 .. Len(resources) : Len(resources[i]) = 2
        /\ BeforeFailure(events) = events => resources = leaves
        /\ pc = "loadconfig" => LastOf(7)[1] = I(Len(resources))

C6_Witness ==
  /\ pc = "loadconfig"
  /\ Len(resources) >= 2
  /\ resources[1] # resources[2]
  /\ Len(resources) < Len(LeavesOf(TreeEvents))

\* C7: get_entropy returns 0.0 for an empty buffer with no histogram built
\* and no term computed; otherwise bucket b counts the bytes equal to b (so
\* the counts sum to len(data)), the buckets with a nonzero count and only
\* they contribute a term, a buffer of identical bytes gives exactly 0, and
\* the result lies between 0 and 8.
C7_EntropyContract ==
  run.called =>
    /\ Len(data) = 0 => (run.ret = FZero /\ run.occurences = <<>> /\ run.terms = <<>>)
    /\ Len(data) > 0 =>
         /\ \A b \in 0 .. NBuckets - 1 :
              run.occurences[b] = Cardinality({i \in 1 .. Len(data) : data[i] = b})
         /\ Len(run.terms) = Cardinality({data[i] : i \in 1 .. Len(data)})
         /\ (\A i \in 1 .. Len(data) : data[i] = data[1]) => run.ret = FZero
    /\ FLe(FZero, run.ret)
    /\ FLe(run.ret, FromInt(8))

\* the same without the upper bound
C7_AllButUpperBound ==
  run.called =>
    /\ Len(data) = 0 => (run.ret = FZero /\ run.occurences = <<>> /\ run.terms = <<>>)
    /\ Len(data) > 0 =>
         /\ \A b \in 0 .. NBuckets - 1 :
              run.occurences[b] = Cardinality({i \in 1 .. Len(data) : data[i] = b})
         /\ Len(run.terms) = Cardinality({data[i] : i \in 1 .. Len(data)})
         /\ (\A i \in 1 .. Len(data) : data[i] = data[1]) => run.ret = FZero
    /\ FLe(FZero, run.ret)

ImportTriple == SubSeq(res, Pos("ImportsNbDLL"), Pos("ImportsNbOrdinal"))

\* every descriptor lists its symbols and every symbol has a name or None
WellFormedImports ==
  /\ pe.imports.present
  /\ \A i \in 1 .. Len(pe.imports.descs) :
       /\ pe.imports.descs[i].hasImports
       /\ \A j \in 1 .. Len(pe.imports.descs[i].imports) :
            pe.imports.descs[i].imports[j] # "missing"

SymbolCounts == [i \in 1 .. Len(pe.imports.descs) |-> Len(pe.imports.descs[i].imports)]

OrdinalCounts ==
  [i \in 1 .. Len(pe.imports.descs) |->
     Cardinality({j \in 1 .. Len(pe.imports.descs[i].imports) :
                    pe.imports.descs[i].imports[j] = "None"})]

\* C8: the import fields are the number of descriptors, the sum of their
\* symbol counts and the number of symbols without a name; the third never
\* exceeds the second, no descriptor means no symbol, and an absent import
\* directory gives (0, 0, 0).
C8_ImportCounts ==
  Past("imports") =>
    /\ ImportTriple[3][2] <= ImportTriple[2][2]
    /\ ImportTriple[1][2] = 0 => (ImportTriple[2][2] = 0 /\ ImportTriple[3][2] = 0)
    /\ ~pe.imports.present => ImportTriple = Zeros(3)
    /\ pe.imports.present => ImportTriple[1] = I(Len(pe.imports.descs))
    /\ WellFormedImports =>
         ImportTriple = <<I(Len(pe.imports.descs)), I(SumI(SymbolCounts)), I(SumI(OrdinalCounts))>>

C8_Witness ==
  /\ pc = "returned"
  /\ WellFormedImports
  /\ ImportTriple[1][2] = 2
  /\ ImportTriple[3][2] >= 1
  /\ ImportTriple[3][2] < ImportTriple[2][2]

HeaderLines == {i \in 1 .. Len(ff) : ff[i] = HeaderLine}

Label(line) == line[Len(line)]

\* C9: the output file holds one header line, written before any row of the
\* run; every row ends with its label, 1 for a file of legitimate and 0 for
\* one of malicious, the rows of legitimate first; whatever the file held
\* before.
C9_OneHeaderThenLabelledRows ==
  bpc # "begin" =>
    /\ Cardinality(HeaderLines) = 1
    /\ ff[Len(prior) + 1] = HeaderLine
    /\ \A i \in 1 .. Len(RunLines) : Label(RunLines[i]) \in {I(0), I(1)}
    /\ \A i, j \in 1 .. Len(RunLines) :
         (Label(RunLines[i]) = I(0) /\ Label(RunLines[j]) = I(1)) => j < i
    /\ bpc = "legitimate" => \A i \in 1 .. Len(RunLines) : Label(RunLines[i]) = I(1)

\* C10: every row has as many fields as the header has columns, and the
\* value at a position is the feature the column there names: the machine
\* under Machine, the label under legitimate.
C10_RowsAlignedWithHeader ==
  \A i \in 1 .. Len(RunLines) :
    /\ Len(RunLines[i]) = Len(columns)
    /\ RunLines[i][IndexOf(columns, "Machine")] = I(FileHeader.Machine)
    /\ RunLines[i][IndexOf(columns, "legitimate")] \in {I(0), I(1)}

====
